---- MODULE Spec2Model ----
(***************************************************************************)
(* Model of the deepstate-map-data pipeline.                               *)
(*   scripts/script.py      fetches the feature collection, extracts the   *)
(*                          label of every feature, selects the polygons   *)
(*                          with an allowed label, unions them and writes  *)
(*                          the snapshot file named for the current day.   *)
(*   scripts/unify-data.py  reads the snapshot named for the current day   *)
(*                          and the compressed historical store, appends   *)
(*                          the snapshot as one dated record and rewrites  *)
(*                          the store file.                                *)
(* Strings are sequences of tokens ("/" and " " are single characters, a   *)
(* word is one token), a geometry is a type, the set of cells it covers    *)
(* and a flag for a z coordinate, a file is its parsed content.            *)
(***************************************************************************)
EXTENDS Integers, Sequences, FiniteSets, TLC

\* ------------------------------------------------------------------ bounds
MaxDay == 3
MaxFeatures == 2

Days == 1..MaxDay
\* times of day at which a script may start
Times == {"00:05", "23:55"}
\* the cells of the map a geometry can cover, west to east
Cells == {1, 2}
Runs == {1, 2}

\* datetime.now(): a calendar day and a time of day
DateTimes == [day : Days, time : Times]

\* the time of day is kept in the string
DateStr_time(dt) == <<"Y-m-d", dt.day, dt.time>>

\* strftime('%Y-%m-%d') of a datetime: the calendar day, the time is dropped
DateStr(dt) == <<"Y-m-d", dt.day>>

\* strftime('%Y%m%d') inside the snapshot file name
FileName(dt) == <<"deepstatemap_data", dt.day>>

FileNames == {FileName(dt) : dt \in DateTimes}
DateStrs == {DateStr(dt) : dt \in DateTimes}

\* ------------------------------------------------------------ script.py
SEP == <<"/", "/", "/">>

AllowedNames ==
    { <<"CADR", " ", "and", " ", "CALR">>,
      <<"Occupied">>,
      <<"Occupied", " ", "Crimea">> }

\* composite names of the input feed
RawNames ==
    { <<"X", "/", "/", "/", " ", "Occupied">>,
      <<"Y", "/", "/", "/", "Occupied", " ", "Crimea", " ">>,
      <<"Q", "/", "/", "/", "CADR", " ", "and", " ", "CALR", "/", "/", "/", "t">>,
      <<"Z", "/", "/", "/", " ", "FrontLine">>,
      <<"Occupied", "/", "/", "/", "W">>,
      <<"Occupied">> }

GeomTypes == {"Polygon", "MultiPolygon", "LineString"}

\* every shape in 2-D, the one-cell shapes also with a z coordinate
RawGeoms ==
    {g \in [type : GeomTypes, cells : (SUBSET Cells) \ {{}}, z : BOOLEAN] :
        g.z => g.cells = {1}}

RawFeatures == [name : RawNames, geometry : RawGeoms]

SeqsUpTo(S, n) == UNION {[1..k -> S] : k \in 0..n}

DataInputs == SeqsUpTo(RawFeatures, MaxFeatures)

\* s[i..] starts with p
StartsWith(s, i, p) ==
    /\ i + Len(p) - 1 <= Len(s)
    /\ \A k \in 1..Len(p) : s[i + k - 1] = p[k]

\* str.split(sep): the fields between the non-overlapping occurrences of sep,
\* scanned from the left
RECURSIVE SplitFrom(_, _, _, _)
SplitFrom(s, sep, i, cur) ==
    IF i > Len(s) THEN <<cur>>
    ELSE IF StartsWith(s, i, sep)
         THEN <<cur>> \o SplitFrom(s, sep, i + Len(sep), <<>>)
         ELSE SplitFrom(s, sep, i + 1, Append(cur, s[i]))

Split(s, sep) == SplitFrom(s, sep, 1, <<>>)

\* str.strip(): leading and trailing blanks removed
RECURSIVE LStrip(_)
LStrip(s) == IF s # <<>> /\ Head(s) = " " THEN LStrip(Tail(s)) ELSE s

RECURSIVE RStrip(_)
RStrip(s) ==
    IF s # <<>> /\ s[Len(s)] = " " THEN RStrip(SubSeq(s, 1, Len(s) - 1)) ELSE s

Strip(s) == LStrip(RStrip(s))

\* extract_first_part(name, part): raises IndexError when the field is absent
HasPart(name, part) == Len(Split(name, SEP)) > part

extract_first_part(name, part) == Strip(Split(name, SEP)[part + 1])

\* wkt.loads(wkt.dumps(shape(geom), output_dimension=2)): the z coordinate goes
Normalize2D(geom) == [geom EXCEPT !.z = FALSE]

\* process_data(data): [ok, geo_list]; ok is FALSE when a name has no field 1
ProcessOk(data) == \A i \in 1..Len(data) : HasPart(data[i].name, 1)

process_data(data) ==
    [i \in 1..Len(data) |->
        [name |-> extract_first_part(data[i].name, 1),
         geometry |-> Normalize2D(data[i].geometry)]]

\* multi-polygons pass the mask as well
IsPolygon_multi(f) == f.geometry.type \in {"Polygon", "MultiPolygon"}

\* raw_gdf[mask]: isinstance(x, Polygon)
IsPolygon(f) == f.geometry.type = "Polygon"

polygon_gdf(geo_list) == SelectSeq(geo_list, IsPolygon)

\* polygon_gdf[polygon_gdf['name'].isin([...])]
HasAllowedName(f) == f.name \in AllowedNames

filtered_gdf(geo_list) == SelectSeq(polygon_gdf(geo_list), HasAllowedName)

\* the cells of a set form one connected part
Contiguous(cs) == \A a \in cs, b \in cs, c \in Cells : (a < c /\ c < b) => c \in cs

\* union_all(): the cells of the rows are accumulated in row order; no row
\* gives the empty GEOMETRYCOLLECTION
\* only the first row is taken
UnionCells_first(rows, acc) ==
    IF rows = <<>> THEN acc ELSE acc \cup Head(rows).geometry.cells

RECURSIVE UnionCells(_, _)
UnionCells(rows, acc) ==
    IF rows = <<>> THEN acc
    ELSE UnionCells(Tail(rows), acc \cup Head(rows).geometry.cells)

union_all(rows) ==
    LET cs == UnionCells(rows, {})
    IN [type  |-> IF cs = {} THEN "GeometryCollection"
                  ELSE IF Contiguous(cs) THEN "Polygon" ELSE "MultiPolygon",
        cells |-> cs,
        z     |-> FALSE]

\* .buffer(eps).buffer(-eps): the covered cells stay, an empty input comes
\* back as an empty polygon
buffer2(g) ==
    [g EXCEPT !.type = IF g.cells = {} THEN "Polygon" ELSE g.type]

\* create_geodataframe(geo_list): GeoDataFrame([]) has no geometry column and
\* set_crs raises
CreateOk(geo_list) == geo_list # <<>>

create_geodataframe(geo_list) == buffer2(union_all(filtered_gdf(geo_list)))

IsEmptyGeom(g) == g.cells = {}

\* gdf.to_file(output_path, driver="GeoJSON"): one feature, the geometry
SnapshotOf(g) == [kind |-> "rows", rows |-> <<g>>]

MissingFile == [kind |-> "missing", rows |-> <<>>]

\* ------------------------------------------------------- unify-data.py
NoGeom == [type |-> "None", cells |-> {}, z |-> FALSE]
NoRow == [index |-> 0, date |-> <<"Y-m-d", 0>>, geometry |-> NoGeom]

VARIABLES
    store,              \* TARGET_FILE: [kind, feats], feats a sequence of
                        \*   [id, date, geometry]
    snapshots,          \* data/: file name -> [kind, rows]
    pc,                 \* per run: the statement of main() to execute next
    CURRENT_DATE,       \* per run: datetime.now() at import
    new_row,            \* per run: the source GeoDataFrame's single row
    existing_dataset,   \* per run: the rows read from the store
    unified_gdf,        \* per run: the concatenated rows
    exit_code,          \* per run: -1 while running, else the exit status
    outcome,            \* per run: how the run ended
    store0,             \* per run: the store file when the run started
    prev,               \* per run: CURRENT_DATE and outcome of its previous execution
    last_writer,        \* the run that wrote the store file last, 0 if none
    script,             \* the last execution of script.py: [file, selected, exit_code]
    spc, data, geo_list, selected, gdf,  \* script.py step by step
    err                 \* the exception that ended script.py: [kind, feature],
                        \*   feature the feed index it names, 0 for none

unifier_vars ==
    <<store, pc, CURRENT_DATE, new_row, existing_dataset, unified_gdf,
      exit_code, outcome, store0, prev, last_writer>>
pipe_vars == <<spc, data, geo_list, selected, gdf, err>>
vars == <<unifier_vars, snapshots, script, pipe_vars>>

\* the file of the day before is read (the back-dated name of the re-run line)
SOURCE_FILE_yesterday(r) ==
    FileName([CURRENT_DATE[r] EXCEPT !.day = IF @ > 1 THEN @ - 1 ELSE @])

SOURCE_FILE(r) == FileName(CURRENT_DATE[r])

\* the geometry of the snapshot a correct earlier run left for a day
DayGeom(d) ==
    [type |-> "Polygon", cells |-> IF d % 2 = 1 THEN {1} ELSE Cells, z |-> FALSE]

Dates(rows) == {rows[i].date : i \in 1..Len(rows)}

\* index.max() of the loaded rows
RECURSIVE SeqMax(_)
SeqMax(s) ==
    IF Len(s) = 1 THEN s[1]
    ELSE LET m == SeqMax(Tail(s)) IN IF s[1] > m THEN s[1] ELSE m

IndexMax(rows) == SeqMax([i \in 1..Len(rows) |-> rows[i].index])

\* gpd.read_file(StringIO(geojson_str)).drop(columns="id"): the rows in file
\* order under a fresh RangeIndex; the id column is dropped
read_target(feats) ==
    [i \in 1..Len(feats) |->
        [index |-> i - 1, date |-> feats[i].date, geometry |-> feats[i].geometry]]

\* unified_gdf.to_json(): one feature per row, its id the row's index
to_json(rows) ==
    [i \in 1..Len(rows) |->
        [id |-> rows[i].index, date |-> rows[i].date, geometry |-> rows[i].geometry]]

ValidStore(feats) == [kind |-> "valid", feats |-> feats]
CorruptStore == [kind |-> "corrupt", feats |-> <<>>]
MissingStore == [kind |-> "missing", feats |-> <<>>]

\* sys.exit(code), or the interpreter ending after main() returns (code 0)
Exit(r, code, how) ==
    /\ pc' = [pc EXCEPT ![r] = "exited"]
    /\ exit_code' = [exit_code EXCEPT ![r] = code]
    /\ outcome' = [outcome EXCEPT ![r] = how]

Goto(r, label) ==
    /\ pc' = [pc EXCEPT ![r] = label]
    /\ UNCHANGED <<exit_code, outcome>>

\* python3 scripts/unify-data.py: module import sets CURRENT_DATE
Start(r) ==
    /\ pc[r] \in {"idle", "exited"}
    /\ \E dt \in DateTimes : CURRENT_DATE' = [CURRENT_DATE EXCEPT ![r] = dt]
    /\ pc' = [pc EXCEPT ![r] = "check_source"]
    /\ exit_code' = [exit_code EXCEPT ![r] = -1]
    /\ outcome' = [outcome EXCEPT ![r] = "running"]
    /\ new_row' = [new_row EXCEPT ![r] = NoRow]
    /\ existing_dataset' = [existing_dataset EXCEPT ![r] = <<>>]
    /\ unified_gdf' = [unified_gdf EXCEPT ![r] = <<>>]
    /\ store0' = [store0 EXCEPT ![r] = store]
    /\ prev' = [prev EXCEPT ![r] =
                  [when |-> CURRENT_DATE[r], outcome |-> outcome[r]]]
    /\ UNCHANGED <<store, last_writer, snapshots, script, pipe_vars>>

check_source_geojson_existence(r) ==
    /\ pc[r] = "check_source"
    /\ IF snapshots[SOURCE_FILE(r)].kind # "missing"
       THEN Goto(r, "check_target")
       ELSE Exit(r, 1, "Aborted")
    /\ UNCHANGED <<store, CURRENT_DATE, new_row, existing_dataset, unified_gdf,
                   store0, prev, last_writer, snapshots, script, pipe_vars>>

check_target_geojson_existence(r) ==
    /\ pc[r] = "check_target"
    /\ IF store.kind # "missing"
       THEN Goto(r, "import_source")
       ELSE Exit(r, 1, "Aborted")
    /\ UNCHANGED <<store, CURRENT_DATE, new_row, existing_dataset, unified_gdf,
                   store0, prev, last_writer, snapshots, script, pipe_vars>>

\* import_source_geojson(): exit on a read error, on no row and on more than
\* one row; else one row with today's date and the first geometry
import_source_geojson(r) ==
    /\ pc[r] = "import_source"
    /\ LET snap == snapshots[SOURCE_FILE(r)]
       IN IF snap.kind = "rows" /\ Len(snap.rows) = 1
          THEN /\ new_row' = [new_row EXCEPT ![r] =
                                [index |-> 0,
                                 date |-> DateStr(CURRENT_DATE[r]),
                                 geometry |-> snap.rows[1]]]
               /\ Goto(r, "import_target")
          ELSE /\ Exit(r, 1, "Aborted")
               /\ UNCHANGED new_row
    /\ UNCHANGED <<store, CURRENT_DATE, existing_dataset, unified_gdf,
                   store0, prev, last_writer, snapshots, script, pipe_vars>>

\* the last-record lookup is skipped: any readable store is accepted
import_target_geojson_any(r) ==
    /\ pc[r] = "import_target"
    /\ IF store.kind = "valid"
       THEN /\ existing_dataset' =
                  [existing_dataset EXCEPT ![r] = read_target(store.feats)]
            /\ Goto(r, "unify_datasets")
       ELSE /\ Exit(r, 1, "Aborted")
            /\ UNCHANGED existing_dataset
    /\ UNCHANGED <<store, CURRENT_DATE, new_row, unified_gdf,
                   store0, prev, last_writer, snapshots, script, pipe_vars>>

\* import_target_geojson(): gzip or parse error exits; iloc[-1, 1] of a store
\* without rows raises IndexError, caught, exit(1)
import_target_geojson(r) ==
    /\ pc[r] = "import_target"
    /\ IF store.kind = "valid" /\ store.feats # <<>>
       THEN /\ existing_dataset' =
                  [existing_dataset EXCEPT ![r] = read_target(store.feats)]
            /\ Goto(r, "unify_datasets")
       ELSE /\ Exit(r, 1, "Aborted")
            /\ UNCHANGED existing_dataset
    /\ UNCHANGED <<store, CURRENT_DATE, new_row, unified_gdf,
                   store0, prev, last_writer, snapshots, script, pipe_vars>>

\* the membership test never matches
DateExists_never(existing, row) == FALSE

\* only the last stored date is compared
DateExists_last(existing, row) == row.date = existing[Len(existing)].date

\* new_row.iloc[-1].loc["date"] in existing_dataset["date"].values
DateExists(existing, row) == row.date \in Dates(existing)

\* the index of the last row is reused
NextIndex_same(existing) == IndexMax(existing)

\* new_row.index = [existing_dataset.index.max() + 1]
NextIndex(existing) == IndexMax(existing) + 1

\* the new row is put in front
Concat_front(existing, row) == <<row>> \o existing

\* gpd.pd.concat([existing_dataset, new_row], ignore_index=False)
Concat(existing, row) == Append(existing, row)

\* the duplicate is logged but the run goes on
unify_datasets_nocheck(r) ==
    /\ pc[r] = "unify_datasets"
    /\ LET row == [new_row[r] EXCEPT !.index = NextIndex(existing_dataset[r])]
       IN /\ new_row' = [new_row EXCEPT ![r] = row]
          /\ unified_gdf' =
                [unified_gdf EXCEPT ![r] = Concat(existing_dataset[r], row)]
          /\ Goto(r, "compress_gdf")
    /\ UNCHANGED <<store, CURRENT_DATE, existing_dataset,
                   store0, prev, last_writer, snapshots, script, pipe_vars>>

unify_datasets(r) ==
    /\ pc[r] = "unify_datasets"
    /\ IF DateExists(existing_dataset[r], new_row[r])
       THEN /\ Exit(r, 1, "Rejected")
            /\ UNCHANGED <<new_row, unified_gdf>>
       ELSE LET row == [new_row[r] EXCEPT !.index = NextIndex(existing_dataset[r])]
            IN /\ new_row' = [new_row EXCEPT ![r] = row]
               /\ unified_gdf' =
                     [unified_gdf EXCEPT ![r] = Concat(existing_dataset[r], row)]
               /\ Goto(r, "compress_gdf")
    /\ UNCHANGED <<store, CURRENT_DATE, existing_dataset,
                   store0, prev, last_writer, snapshots, script, pipe_vars>>

\* what gzip.open(TARGET_FILE, "wt") and f.write(geojson_str) leave in the
\* file: "ok" the whole string, "open" the open failed and the file is as it
\* was, "write" the file was truncated by the open and the write failed
WriteOutcomes == {"ok", "open", "write"}

\* the new record is added to whatever the file holds
Written_merge(old, rows, how) ==
    CASE how = "ok" -> ValidStore(old.feats \o <<to_json(rows)[Len(rows)]>>)
      [] how = "open" -> old
      [] how = "write" -> CorruptStore

Written(old, rows, how) ==
    CASE how = "ok" -> ValidStore(to_json(rows))
      [] how = "open" -> old
      [] how = "write" -> CorruptStore

compress_gdf(r) ==
    /\ pc[r] = "compress_gdf"
    /\ \E how \in WriteOutcomes :
          /\ store' = Written(store, unified_gdf[r], how)
          /\ last_writer' = IF how = "open" THEN last_writer ELSE r
          /\ IF how = "ok" THEN Exit(r, 0, "Persisted") ELSE Exit(r, 1, "Aborted")
    /\ UNCHANGED <<CURRENT_DATE, new_row, existing_dataset, unified_gdf,
                   store0, prev, snapshots, script, pipe_vars>>

\* one statement of main() of unify-data.py
Step(r) ==
    \/ check_source_geojson_existence(r)
    \/ check_target_geojson_existence(r)
    \/ import_source_geojson(r)
    \/ import_target_geojson(r)
    \/ unify_datasets(r)
    \/ compress_gdf(r)

\* ------------------------------------------------------------ initial states
\* stores of up to two records, one per day, ids 0..n-1
InitFeats ==
    {<<>>}
    \cup {<<[id |-> 0, date |-> DateStr([day |-> d, time |-> "00:05"]),
            geometry |-> DayGeom(d)]>> : d \in Days}
    \cup {<<[id |-> 0, date |-> DateStr([day |-> d, time |-> "00:05"]),
            geometry |-> DayGeom(d)],
           [id |-> 1, date |-> DateStr([day |-> e, time |-> "00:05"]),
            geometry |-> DayGeom(e)]>> :
              <<d, e>> \in {p \in Days \X Days : p[1] # p[2]}}

InitStores == {MissingStore} \cup {ValidStore(f) : f \in InitFeats}

\* a file that is not the single-feature snapshot script.py writes
BadSnapshots ==
    { MissingFile,
      [kind |-> "unreadable", rows |-> <<>>],
      [kind |-> "rows", rows |-> <<>>],
      [kind |-> "rows", rows |-> <<DayGeom(1), DayGeom(2)>>] }

DayOfFile(f) == f[2]

\* every day has its snapshot, but for at most one day whose file is bad
InitSnapshots ==
    {[f \in FileNames |-> SnapshotOf(DayGeom(DayOfFile(f)))]}
    \cup {[f \in FileNames |->
              IF f = b THEN s ELSE SnapshotOf(DayGeom(DayOfFile(f)))] :
            b \in FileNames, s \in BadSnapshots}

NoError == [kind |-> "none", feature |-> 0]

NoScript == [file |-> FileName([day |-> 1, time |-> "00:05"]), selected |-> 0,
             exit_code |-> -1]

InitRuns ==
    /\ pc = [r \in Runs |-> "idle"]
    /\ CURRENT_DATE = [r \in Runs |-> [day |-> 1, time |-> "00:05"]]
    /\ new_row = [r \in Runs |-> NoRow]
    /\ existing_dataset = [r \in Runs |-> <<>>]
    /\ unified_gdf = [r \in Runs |-> <<>>]
    /\ exit_code = [r \in Runs |-> -1]
    /\ outcome = [r \in Runs |-> "none"]
    /\ store0 = [r \in Runs |-> store]
    /\ prev = [r \in Runs |->
                [when |-> [day |-> 1, time |-> "00:05"], outcome |-> "none"]]
    /\ last_writer = 0

InitPipeIdle ==
    /\ spc = "idle"
    /\ data = <<>>
    /\ geo_list = <<>>
    /\ selected = <<>>
    /\ gdf = NoGeom
    /\ err = NoError

\* sequential runs of unify-data.py over given snapshot files
Init ==
    /\ store \in InitStores
    /\ snapshots \in InitSnapshots
    /\ InitRuns
    /\ script = NoScript
    /\ InitPipeIdle

Next == Start(1) \/ Step(1)

Spec == Init /\ [][Next]_vars

\* a started script runs to its end: no statement of main() blocks
SpecFair == Spec /\ WF_vars(Step(1))

\* two runs of unify-data.py, each once, at once or one after the other, over
\* one store file; every snapshot is there
InitConc ==
    /\ store \in {ValidStore(f) : f \in {g \in InitFeats : Len(g) = 1}}
    /\ snapshots = [f \in FileNames |-> SnapshotOf(DayGeom(DayOfFile(f)))]
    /\ InitRuns
    /\ script = NoScript
    /\ InitPipeIdle

\* each of the two runs is started once
StartOnce(r) == pc[r] = "idle" /\ Start(r)

NextConc == \E r \in Runs : StartOnce(r) \/ Step(r)

SpecConc == InitConc /\ [][NextConc]_vars

\* ---------------------------------------------- script.py as a state machine
WellFormed(f) == HasPart(f.name, 1)

\* a feature whose name has no field 1 is left out
ProcessData_skip ==
    /\ spc = "process_data"
    /\ geo_list' = process_data(SelectSeq(data, WellFormed))
    /\ spc' = "create_geodataframe"
    /\ UNCHANGED <<data, selected, gdf, err, unifier_vars, snapshots, script>>

\* process_data(raw_data): name.split('///')[1] of a name without separator
\* raises IndexError('list index out of range'), which nothing catches: the
\* script ends with a traceback that names no feature
ProcessData ==
    /\ spc = "process_data"
    /\ IF ProcessOk(data)
       THEN /\ geo_list' = process_data(data)
            /\ spc' = "create_geodataframe"
            /\ UNCHANGED err
       ELSE /\ spc' = "failed"
            /\ err' = [kind |-> "IndexError", feature |-> 0]
            /\ UNCHANGED geo_list
    /\ UNCHANGED <<data, selected, gdf, unifier_vars, snapshots, script>>

\* create_geodataframe(processed_data)
CreateGeoDataFrame ==
    /\ spc = "create_geodataframe"
    /\ IF CreateOk(geo_list)
       THEN /\ selected' = filtered_gdf(geo_list)
            /\ gdf' = create_geodataframe(geo_list)
            /\ spc' = "export"
            /\ UNCHANGED err
       ELSE /\ spc' = "failed"
            /\ err' = [kind |-> "AttributeError", feature |-> 0]
            /\ UNCHANGED <<selected, gdf>>
    /\ UNCHANGED <<data, geo_list, unifier_vars, snapshots, script>>

\* os.path.join(OUTPUT_DIR, OUTPUT_FILENAME), the name set at import
output_path == script.file

\* gdf.to_file(output_path, driver="GeoJSON")
Export ==
    /\ spc = "export"
    /\ snapshots' = [snapshots EXCEPT ![output_path] = SnapshotOf(gdf)]
    /\ spc' = "done"
    /\ UNCHANGED <<data, geo_list, selected, gdf, err, unifier_vars, script>>

\* the feed is any list of features; the store and the snapshots play no part
InitPipe ==
    /\ store = MissingStore
    /\ snapshots = [f \in FileNames |-> MissingFile]
    /\ InitRuns
    /\ script = NoScript
    /\ spc = "process_data"
    /\ data \in DataInputs
    /\ geo_list = <<>>
    /\ selected = <<>>
    /\ gdf = NoGeom
    /\ err = NoError

NextPipe == ProcessData \/ CreateGeoDataFrame \/ Export

SpecPipe == InitPipe /\ [][NextPipe]_vars

\* ------------------------------------------- the daily job: both scripts
\* the feeds script.py is run on in the daily job: no feature, or one feature
\* over the first cell that is a polygon or a line and whose name has an
\* allowed label, another label or no separator
DailyNames ==
    { <<"X", "/", "/", "/", " ", "Occupied">>,
      <<"Z", "/", "/", "/", " ", "FrontLine">>,
      <<"Occupied">> }

DailyFeatures ==
    {f \in RawFeatures :
        /\ f.name \in DailyNames
        /\ f.geometry.type \in {"Polygon", "LineString"}
        /\ f.geometry.cells = {1} /\ ~f.geometry.z}

ScriptInputs == SeqsUpTo(DailyFeatures, 1)

\* main() of script.py as one step: fetched is FALSE when every request of
\* make_api_request() failed; OUTPUT_FILENAME is set at import
ScriptMain ==
    /\ pc[1] \in {"idle", "exited"}
    /\ \E dt \in DateTimes, d \in ScriptInputs, fetched \in BOOLEAN :
          LET OUTPUT_FILENAME == FileName(dt)
              ok == fetched /\ ProcessOk(d) /\ CreateOk(process_data(d))
          IN IF ok
             THEN /\ snapshots' = [snapshots EXCEPT ![OUTPUT_FILENAME] =
                        SnapshotOf(create_geodataframe(process_data(d)))]
                  /\ script' = [file |-> OUTPUT_FILENAME,
                                selected |-> Len(filtered_gdf(process_data(d))),
                                exit_code |-> 0]
             ELSE /\ UNCHANGED snapshots
                  /\ script' = [file |-> OUTPUT_FILENAME, selected |-> 0,
                                exit_code |-> 1]
    /\ UNCHANGED <<unifier_vars, pipe_vars>>

\* script.py any number of times and unify-data.py once, one after the other,
\* from a store of one record and an empty data directory
InitDaily ==
    /\ store \in {ValidStore(f) : f \in {g \in InitFeats : Len(g) = 1}}
    /\ snapshots = [f \in FileNames |-> MissingFile]
    /\ InitRuns
    /\ script = NoScript
    /\ InitPipeIdle

NextDaily == ScriptMain \/ StartOnce(1) \/ Step(1)

SpecDaily == InitDaily /\ [][NextDaily]_vars

\* ------------------------------------------------------------------ claims
UniqueDates(feats) ==
    \A i \in 1..Len(feats), j \in 1..Len(feats) :
        i # j => feats[i].date # feats[j].date

\* feats is old with one record added at the end
OneAppended(old, feats) ==
    /\ Len(feats) = Len(old) + 1
    /\ \A i \in 1..Len(old) :
          /\ feats[i].date = old[i].date
          /\ feats[i].geometry = old[i].geometry

Started(r) == pc[r] # "idle"
Ended(r) == pc[r] = "exited"

\* C1: whatever runs have taken place and however each ended, the records of
\* the store file have pairwise distinct dates.
C1_DateUniqueness == store.kind = "valid" => UniqueDates(store.feats)

\* a run was accepted onto a store of two records and a later run was rejected
C1_Witness ==
    /\ store.kind = "valid" /\ Len(store.feats) = 3
    /\ last_writer = 1
    /\ outcome[1] = "Rejected"

\* C2: at every point of a run the store file is the file the run found or
\* that file with one record added; nothing else is ever on disk.
C2_AllOrNothing ==
    \A r \in Runs : Started(r) =>
        \/ store = store0[r]
        \/ /\ store.kind = "valid" /\ store0[r].kind = "valid"
           /\ OneAppended(store0[r].feats, store.feats)

\* C3: a run on the calendar day of the run before it, which persisted, finds
\* that run's record in the store it loads, never reaches the write, ends
\* Rejected, and the store file stays as the first run left it.
C3_RerunRejected ==
    \A r \in Runs :
        (Started(r) /\ prev[r].outcome = "Persisted"
                    /\ prev[r].when.day = CURRENT_DATE[r].day) =>
            /\ store = store0[r]
            /\ pc[r] # "compress_gdf"
            /\ pc[r] = "unify_datasets" =>
                  DateStr(prev[r].when) \in Dates(existing_dataset[r])
            /\ Ended(r) => outcome[r] = "Rejected" /\ exit_code[r] # 0

\* the second of two runs on one day, at another time of day, was rejected
C3_Witness ==
    /\ prev[1].outcome = "Persisted"
    /\ prev[1].when.day = CURRENT_DATE[1].day
    /\ prev[1].when.time # CURRENT_DATE[1].time
    /\ outcome[1] = "Rejected"

\* C4: after a run that ended with status 0 the store file holds the records
\* the run found, date and geometry as they were, and after them one record:
\* today's date with the geometry of today's snapshot.
C4_AppendOnly ==
    \A r \in Runs : (Ended(r) /\ exit_code[r] = 0 /\ last_writer = r) =>
        /\ store.kind = "valid" /\ store0[r].kind = "valid"
        /\ OneAppended(store0[r].feats, store.feats)
        /\ store.feats[Len(store.feats)].date = DateStr(CURRENT_DATE[r])
        /\ store.feats[Len(store.feats)].geometry
              = snapshots[SOURCE_FILE(r)].rows[1]

\* a successful run on a store of two records whose geometries differ
C4_Witness ==
    /\ Ended(1) /\ exit_code[1] = 0
    /\ Len(store0[1].feats) = 2
    /\ store0[1].feats[1].geometry # store0[1].feats[2].geometry
    /\ Len(store.feats) = 3

CandidateDate(r) == DateStr(CURRENT_DATE[r])
HasCandidate(r) == Started(r) /\ pc[r] \notin {"check_source", "check_target", "import_source"}
                   /\ new_row[r] # NoRow

C6_ExitBehaviour ==
    \A r \in Runs : Ended(r) =>
        IF exit_code[r] = 0
        THEN /\ store.kind = "valid" /\ store0[r].kind = "valid"
             /\ OneAppended(store0[r].feats, store.feats)
        ELSE store = store0[r]

\* C8: the ids of the store file are 0..n-1 in file order, and the row a run
\* is about to write carries the greatest loaded index plus one while the
\* loaded rows carry the ids they had in the file.
C8_DenseIndex ==
    /\ store.kind = "valid" =>
          \A i \in 1..Len(store.feats) : store.feats[i].id = i - 1
    /\ \A r \in Runs : pc[r] = "compress_gdf" =>
          /\ new_row[r].index = IndexMax(existing_dataset[r]) + 1
          /\ unified_gdf[r][Len(unified_gdf[r])] = new_row[r]
          /\ \A i \in 1..Len(existing_dataset[r]) :
                /\ unified_gdf[r][i].index = store0[r].feats[i].id
                /\ unified_gdf[r][i].index = i - 1

\* two successful runs in a row grew a store of one record to three
C8_Witness ==
    /\ store.kind = "valid" /\ Len(store.feats) = 3
    /\ Len(store0[1].feats) = 2
    /\ prev[1].outcome = "Persisted" /\ outcome[1] = "Persisted"
    /\ store.feats[3].id = 2

Other(r) == CHOOSE q \in Runs : q # r

BothPersisted ==
    /\ \A r \in Runs : Ended(r) /\ exit_code[r] = 0
    /\ last_writer \in Runs
    /\ CandidateDate(1) # CandidateDate(2)

\* C9: when two runs with different dates have both ended with status 0 after
\* loading the same rows, the store file is what the later writer wrote: its
\* record is there and the earlier writer's is not. When the later writer
\* loaded what the earlier one had written, both records are there.
C9_LostUpdate ==
    BothPersisted =>
        LET w == last_writer
            f == Other(last_writer)
        IN /\ store = ValidStore(to_json(unified_gdf[w]))
           /\ existing_dataset[w] = existing_dataset[f] =>
                 /\ new_row[w].date \in Dates(store.feats)
                 /\ new_row[f].date \notin Dates(store.feats)
                 /\ Len(store.feats) = Len(existing_dataset[f]) + 1
           /\ existing_dataset[w] = read_target(to_json(unified_gdf[f])) =>
                 /\ new_row[w].date \in Dates(store.feats)
                 /\ new_row[f].date \in Dates(store.feats)
                 /\ Len(store.feats) = Len(existing_dataset[f]) + 2

\* both runs loaded the same rows, run 2 wrote last and run 1's record is lost
C9_Witness ==
    /\ BothPersisted
    /\ existing_dataset[1] = existing_dataset[2]
    /\ last_writer = 2
    /\ new_row[1].date \notin Dates(store.feats)

\* run 2 loaded what run 1 had written and both records are in the file
C9_WitnessSerial ==
    /\ BothPersisted
    /\ existing_dataset[2] = read_target(to_json(unified_gdf[1]))
    /\ last_writer = 2
    /\ new_row[1].date \in Dates(store.feats)

\* C7: an execution of script.py whose selection is empty fails, no snapshot
\* file holds a feature with an empty geometry, and no record of the store
\* has one.
C7_EmptySelectionFatal ==
    /\ (script.exit_code # -1 /\ script.selected = 0) => script.exit_code # 0
    /\ \A f \in FileNames : \A i \in 1..Len(snapshots[f].rows) :
          ~IsEmptyGeom(snapshots[f].rows[i])
    /\ store.kind = "valid" =>
          \A i \in 1..Len(store.feats) : ~IsEmptyGeom(store.feats[i].geometry)

\* C10: the selected features are, in feed order, the features that are a
\* Polygon and whose label is one of the three allowed ones; a MultiPolygon
\* or a LineString is never selected, nor is any other label.
Label(f) == extract_first_part(f.name, 1)

C10_FeatureSelection ==
    spc = "export" =>
        /\ \A i \in 1..Len(selected) :
              /\ selected[i].geometry.type = "Polygon"
              /\ selected[i].name \in AllowedNames
              /\ selected[i].geometry.type \notin {"MultiPolygon", "LineString"}
        /\ \A i \in 1..Len(data) :
              (data[i].geometry.type = "Polygon" /\ Label(data[i]) \in AllowedNames)
              <=> \E j \in 1..Len(selected) :
                     /\ selected[j].name = Label(data[i])
                     /\ selected[j].geometry.type = data[i].geometry.type
                     /\ selected[j].geometry.cells = data[i].geometry.cells
        /\ Len(selected) =
              Cardinality({i \in 1..Len(data) :
                  data[i].geometry.type = "Polygon"
                  /\ Label(data[i]) \in AllowedNames})

\* a feed of a polygon and a multi-polygon, both with an allowed label: only
\* the polygon is selected
C10_Witness ==
    /\ spc = "export"
    /\ Len(data) = 2 /\ Len(selected) = 1
    /\ data[1].geometry.type = "MultiPolygon" /\ Label(data[1]) \in AllowedNames
    /\ data[2].geometry.type = "Polygon" /\ Label(data[2]) = <<"Occupied", " ", "Crimea">>

\* the state of the Unifier a run is in: the store is loaded and the candidate
\* is pending when unify_datasets is next, the row is appended in memory when
\* compress_gdf is next
Phase(r) ==
    CASE pc[r] = "idle" -> "NotStarted"
      [] pc[r] \in {"check_source", "check_target", "import_source",
                    "import_target"} -> "Loading"
      [] pc[r] = "unify_datasets" -> "Validating"
      [] pc[r] = "compress_gdf" -> "Appended"
      [] pc[r] = "exited" -> outcome[r]

Terminal == {"Persisted", "Rejected", "Aborted"}

PhaseEdges ==
    {<<"NotStarted", "Loading">>, <<"Loading", "Validating">>,
     <<"Validating", "Appended">>, <<"Validating", "Rejected">>,
     <<"Appended", "Persisted">>,
     <<"Loading", "Aborted">>, <<"Appended", "Aborted">>}
    \cup {<<t, "Loading">> : t \in Terminal}

C11_Edges ==
    [][\A r \in Runs :
          Phase(r)' # Phase(r) => <<Phase(r), Phase(r)'>> \in PhaseEdges]_vars

C11_WriteInPersist ==
    [][store' # store =>
          \E r \in Runs :
             /\ Phase(r) = "Appended" /\ Phase(r)' \in {"Persisted", "Aborted"}
             /\ new_row[r].date \notin Dates(existing_dataset[r])
             /\ Phase(r)' = "Persisted" =>
                   store' = ValidStore(to_json(unified_gdf[r]))]_vars

C11_Terminates ==
    \A r \in Runs : (pc[r] \notin {"idle", "exited"}) ~> (pc[r] = "exited")

DateLess(a, b) == a[2] < b[2]

Chronological(feats) ==
    \A i \in 1..(Len(feats) - 1) : DateLess(feats[i].date, feats[i + 1].date)

FoundChronological(r) ==
    /\ Ended(r) /\ exit_code[r] = 0
    /\ store.kind = "valid" /\ store0[r].kind = "valid"
    /\ Chronological(store0[r].feats)

\* C12 as stated: a successful run on a store whose dates increase with the
\* index leaves a store whose dates increase with the index.
C12_Chronological ==
    \A r \in Runs : FoundChronological(r) => Chronological(store.feats)

\* C12: the records are in append order; after a successful run on a store
\* whose dates increase with the index the dates still increase exactly when
\* the candidate date is later than the last date the run found.
C12_AppendOrder ==
    \A r \in Runs : FoundChronological(r) =>
        /\ store.feats[Len(store.feats)].date = CandidateDate(r)
        /\ Chronological(store.feats) <=>
              DateLess(store0[r].feats[Len(store0[r].feats)].date, CandidateDate(r))

\* a run with a later date kept a store of three records in date order
C12_Witness ==
    /\ FoundChronological(1)
    /\ Len(store.feats) = 3
    /\ Chronological(store.feats)

\* a run with an earlier date was accepted and left the dates out of order
C12_WitnessEarlier ==
    /\ FoundChronological(1)
    /\ DateLess(CandidateDate(1), store0[1].feats[Len(store0[1].feats)].date)
    /\ ~Chronological(store.feats)

Malformed(feed) == \E i \in 1..Len(feed) : ~HasPart(feed[i].name, 1)

NothingWritten ==
    /\ \A f \in FileNames : snapshots[f] = MissingFile
    /\ store = MissingStore

Perms(n) == {p \in [1..n -> 1..n] : \A i, j \in 1..n : p[i] = p[j] => i = j}

Permuted(rows, p) == [i \in 1..Len(rows) |-> rows[p[i]]]

Running(r) == pc[r] \notin {"idle", "exited"}

\* the snapshot file named for the day of run r
TodaysSnapshot(r) == snapshots[FileName(CURRENT_DATE[r])]

\* C15: a run gets past the existence check only when the snapshot named for
\* its own day is there; its candidate row carries that day's date and the
\* geometry of that file; a run whose day has no snapshot ends with status 1
\* and the store as it was; and the record a successful run leaves last in
\* the store is that candidate row.
C15_SnapshotDateBinding ==
    \A r \in Runs :
        /\ (Running(r) /\ pc[r] # "check_source") =>
              TodaysSnapshot(r).kind # "missing"
        /\ (Running(r) /\ HasCandidate(r)) =>
              /\ new_row[r].date = <<"Y-m-d", CURRENT_DATE[r].day>>
              /\ new_row[r].geometry = TodaysSnapshot(r).rows[1]
        /\ (Ended(r) /\ TodaysSnapshot(r).kind = "missing") =>
              /\ exit_code[r] = 1 /\ outcome[r] = "Aborted"
              /\ new_row[r] = NoRow
              /\ store = store0[r]
        /\ (Ended(r) /\ exit_code[r] = 0) =>
              /\ store.feats[Len(store.feats)].date = new_row[r].date
              /\ store.feats[Len(store.feats)].geometry = new_row[r].geometry
              /\ new_row[r].date = <<"Y-m-d", CURRENT_DATE[r].day>>

\* the run of day 2 appended the polygon of day 2's snapshot while day 1's
\* snapshot, written by the script, holds an empty geometry
C15_Witness ==
    /\ Ended(1) /\ exit_code[1] = 0
    /\ CURRENT_DATE[1].day = 2
    /\ snapshots[FileName([day |-> 1, time |-> "23:55"])].kind = "rows"
    /\ IsEmptyGeom(snapshots[FileName([day |-> 1, time |-> "23:55"])].rows[1])
    /\ ~IsEmptyGeom(store.feats[Len(store.feats)].geometry)

\* the script wrote day 1's snapshot and the run of day 2 found none
C15_WitnessMissing ==
    /\ Ended(1) /\ exit_code[1] = 1
    /\ CURRENT_DATE[1].day = 2
    /\ script.exit_code = 0 /\ script.file = FileName([day |-> 1, time |-> "23:55"])
    /\ TodaysSnapshot(1).kind = "missing"

EmptyStore(s) == s.kind = "valid" /\ s.feats = <<>>

\* a run that found the store readable but without records
FoundEmpty(r) == Started(r) /\ EmptyStore(store0[r])

C16_EmptyRunFails ==
    \A r \in Runs :
        /\ FoundEmpty(r) =>
              /\ store = store0[r]
              /\ pc[r] \notin {"unify_datasets", "compress_gdf"}
              /\ unified_gdf[r] = <<>>
              /\ Ended(r) => (exit_code[r] = 1 /\ outcome[r] = "Aborted")
        /\ pc[r] \in {"unify_datasets", "compress_gdf"} =>
              Len(existing_dataset[r]) >= 1

C16_NeverGrowsFromEmpty ==
    [][EmptyStore(store) => store' = store]_vars

\* C16: a run against a readable store of zero records never reaches
\* unify_datasets or compress_gdf, ends with status 1 and leaves the store as
\* it was; a run that reaches them has loaded at least one record; and no
\* step changes a store of zero records.
C16_EmptyStoreNotExtended == []C16_EmptyRunFails /\ C16_NeverGrowsFromEmpty

\* a run got as far as loading the store (today's snapshot was read), found
\* it without records and ended with status 1
C16_Witness ==
    /\ Ended(1) /\ EmptyStore(store0[1])
    /\ new_row[1] # NoRow
    /\ exit_code[1] = 1
    /\ store = store0[1]

====
